---- MODULE Spec2Model ----
(***************************************************************************)
(* Model of app.py of markdown-stripper: the four text-rewrite functions   *)
(* (clean_xml_tags, clean_code_block_markers, clean_markdown_formatting,   *)
(* normalize_whitespace), the process_text pipeline, the token counter and *)
(* the Streamlit script body that keeps its results in st.session_state.   *)
(*                                                                         *)
(* A text is a sequence of one-character strings.  Every re.sub of the     *)
(* source is modelled by the match it finds at a given start position      *)
(* (an operator re_xxx(s, i) that follows the pattern left to right with   *)
(* Python's greedy/backtracking semantics) and by the common scanning loop *)
(* re_sub, which takes the leftmost match, emits the replacement and goes  *)
(* on after the match.                                                     *)
(***************************************************************************)
EXTENDS Integers, Sequences, FiniteSets, TLC

\* ------------------------------------------------------------------------
\* Character classes and position predicates of the regular expressions
\* ------------------------------------------------------------------------

\* \s : the whitespace characters that occur in the modelled texts
WS == {" ", "\n", "\t"}

\* \d
Digits == {"0", "1", "2", "3", "4", "5", "6", "7", "8", "9"}

\* the character at position i, "" beyond either end of the text
At(s, i) == IF i >= 1 /\ i <= Len(s) THEN s[i] ELSE ""

\* the literal lit occurs in s at position i
HasAt(s, i, lit) ==
    /\ i >= 1
    /\ i + Len(lit) - 1 <= Len(s)
    /\ SubSeq(s, i, i + Len(lit) - 1) = lit

\* ^ under re.MULTILINE: start of the text or just after a line break
LineStart(s, i) == i = 1 \/ At(s, i - 1) = "\n"

\* $ under re.MULTILINE: end of the text or just before a line break
LineEnd(s, i) == i = Len(s) + 1 \/ At(s, i) = "\n"

\* greedy [set]* from position i: the first position whose character is not in set
RECURSIVE SkipIn(_, _, _)
SkipIn(s, i, set) ==
    IF i <= Len(s) /\ s[i] \in set THEN SkipIn(s, i + 1, set) ELSE i

\* greedy [^set]* from position i: the first position whose character is in set
RECURSIVE SkipNotIn(_, _, _)
SkipNotIn(s, i, set) ==
    IF i <= Len(s) /\ s[i] \notin set THEN SkipNotIn(s, i + 1, set) ELSE i

\* lazy [\s\S]*? followed by lit: the first position >= i where lit occurs, 0 if none
RECURSIVE FindLit(_, _, _)
FindLit(s, i, lit) ==
    IF i + Len(lit) - 1 > Len(s) THEN 0
    ELSE IF HasAt(s, i, lit) THEN i
    ELSE FindLit(s, i + 1, lit)

\* greedy \s* followed by $ (MULTILINE), entered at position lo: \s* first
\* runs to hi and gives characters back until $ holds; 0 when it never holds
LastLineEnd(s, lo, hi) ==
    LET Q == {q \in lo..hi : LineEnd(s, q)}
    IN  IF Q = {} THEN 0 ELSE CHOOSE q \in Q : \A r \in Q : r <= q

Min(a, b) == IF a <= b THEN a ELSE b

\* the result of one match attempt: end is the position after the match
\* (0: no match here), repl the text that replaces the match
NoMatch == [end |-> 0, repl |-> <<>>]

Match(e, r) == [end |-> e, repl |-> r]

\* re.sub: leftmost non-overlapping matches are replaced, the rest is copied;
\* m[i] is the match attempt at position i (no pattern of app.py matches the
\* empty string)
RECURSIVE re_sub_from(_, _, _)
re_sub_from(s, m, i) ==
    IF i > Len(s) THEN <<>>
    ELSE LET r == m[i]
         IN  IF r.end > 0
             THEN r.repl \o re_sub_from(s, m, r.end)
             ELSE <<s[i]>> \o re_sub_from(s, m, i + 1)

re_sub(s, m) == re_sub_from(s, m, 1)

\* ------------------------------------------------------------------------
\* clean_xml_tags
\* ------------------------------------------------------------------------

\* <[^>]+/>
re_self_closing_tag(s, i) ==
    LET j == SkipNotIn(s, i + 1, {">"})
    IN  IF At(s, i) = "<" /\ At(s, j) = ">" /\ At(s, j - 1) = "/" /\ j - 1 >= i + 2
        THEN Match(j + 1, <<>>) ELSE NoMatch

\* the pattern <[^<>]+> in place of <[^>]+>: a tag may not hold a '<'
re_tag_without_lt(s, i) ==
    LET j == SkipNotIn(s, i + 1, {">", "<"})
    IN  IF At(s, i) = "<" /\ At(s, j) = ">" /\ j >= i + 2
        THEN Match(j + 1, <<>>) ELSE NoMatch

\* <[^>]+>
re_tag(s, i) ==
    LET j == SkipNotIn(s, i + 1, {">"})
    IN  IF At(s, i) = "<" /\ At(s, j) = ">" /\ j >= i + 2
        THEN Match(j + 1, <<>>) ELSE NoMatch

strip_self_closing_tags(s) == re_sub(s, [i \in 1..Len(s) |-> re_self_closing_tag(s, i)])

strip_tags(s) == re_sub(s, [i \in 1..Len(s) |-> re_tag(s, i)])

clean_xml_tags(text) == strip_tags(strip_self_closing_tags(text))

\* ------------------------------------------------------------------------
\* clean_code_block_markers
\* ------------------------------------------------------------------------

\* the character ` (a string literal of the module cannot hold it)
Backtick == "bt"

Fence == <<Backtick, Backtick, Backtick>>

\* the pattern ^```[^\n]* in place of ^```[^\n]*\n?: the line break stays
re_fence_open_keeping_newline(s, i) ==
    LET d == SkipNotIn(s, i + 3, {"\n"})
    IN  IF LineStart(s, i) /\ HasAt(s, i, Fence)
        THEN Match(d, <<>>) ELSE NoMatch

\* ^```[^\n]*\n?   (MULTILINE)
re_fence_open(s, i) ==
    LET d == SkipNotIn(s, i + 3, {"\n"})
    IN  IF LineStart(s, i) /\ HasAt(s, i, Fence)
        THEN Match(IF At(s, d) = "\n" THEN d + 1 ELSE d, <<>>) ELSE NoMatch

\* ^```\s*$   (MULTILINE)
re_fence_close(s, i) ==
    LET c == SkipIn(s, i + 3, WS)
        e == LastLineEnd(s, i + 3, c)
    IN  IF LineStart(s, i) /\ HasAt(s, i, Fence) /\ e > 0
        THEN Match(e, <<>>) ELSE NoMatch

strip_fence_open(s) == re_sub(s, [i \in 1..Len(s) |-> re_fence_open(s, i)])

strip_fence_close(s) == re_sub(s, [i \in 1..Len(s) |-> re_fence_close(s, i)])

clean_code_block_markers(text) == strip_fence_close(strip_fence_open(text))

\* ------------------------------------------------------------------------
\* clean_markdown_formatting
\* ------------------------------------------------------------------------

\* ^\s*#{1,6}\s*   (MULTILINE)
re_heading(s, i) ==
    LET a == SkipIn(s, i, WS)
        b == Min(SkipIn(s, a, {"#"}), a + 6)
        c == SkipIn(s, b, WS)
    IN  IF LineStart(s, i) /\ b > a THEN Match(c, <<>>) ELSE NoMatch

\* dd([^d]+)dd -> \1   for a two-character delimiter dd: \*\*, __ and ~~
re_double(s, i, d) ==
    LET j == SkipNotIn(s, i + 2, {d})
    IN  IF HasAt(s, i, <<d, d>>) /\ j > i + 2 /\ HasAt(s, j, <<d, d>>)
        THEN Match(j + 2, SubSeq(s, i + 2, j - 1)) ELSE NoMatch

\* (?<!d)d([^d]+)d(?!d) -> \1   for d = \* and d = _
re_single(s, i, d) ==
    LET j == SkipNotIn(s, i + 1, {d})
    IN  IF /\ At(s, i - 1) # d
           /\ At(s, i) = d
           /\ j > i + 1
           /\ At(s, j) = d
           /\ At(s, j + 1) # d
        THEN Match(j + 1, SubSeq(s, i + 1, j - 1)) ELSE NoMatch

\* ^\s*>\s?   (MULTILINE)
re_blockquote(s, i) ==
    LET a == SkipIn(s, i, WS)
    IN  IF LineStart(s, i) /\ At(s, a) = ">"
        THEN Match(IF At(s, a + 1) \in WS THEN a + 2 ELSE a + 1, <<>>) ELSE NoMatch

\* \[([^\]]+)\]\([^\)]+\) -> \1
re_link(s, i) ==
    LET j == SkipNotIn(s, i + 1, {"]"})
        k == SkipNotIn(s, j + 2, {")"})
    IN  IF /\ At(s, i) = "["
           /\ j > i + 1
           /\ HasAt(s, j, <<"]", "(">>)
           /\ k > j + 2
           /\ At(s, k) = ")"
        THEN Match(k + 1, SubSeq(s, i + 1, j - 1)) ELSE NoMatch

\* \[([^\]]+)\]\[[^\]]*\] -> \1
re_reference_link(s, i) ==
    LET j == SkipNotIn(s, i + 1, {"]"})
        k == SkipNotIn(s, j + 2, {"]"})
    IN  IF /\ At(s, i) = "["
           /\ j > i + 1
           /\ HasAt(s, j, <<"]", "[">>)
           /\ At(s, k) = "]"
        THEN Match(k + 1, SubSeq(s, i + 1, j - 1)) ELSE NoMatch

\* ^\s*\[[^\]]+\]:\s*\S+.*$   (MULTILINE)
re_link_definition(s, i) ==
    LET a == SkipIn(s, i, WS)
        j == SkipNotIn(s, a + 1, {"]"})
        b == SkipIn(s, j + 2, WS)
        c == SkipNotIn(s, b, WS)
        d == SkipNotIn(s, c, {"\n"})
    IN  IF /\ LineStart(s, i)
           /\ At(s, a) = "["
           /\ j > a + 1
           /\ HasAt(s, j, <<"]", ":">>)
           /\ c > b
        THEN Match(d, <<>>) ELSE NoMatch

\* !\[([^\]]*)\]\([^\)]+\) -> \1
re_image(s, i) ==
    LET j == SkipNotIn(s, i + 2, {"]"})
        k == SkipNotIn(s, j + 2, {")"})
    IN  IF /\ HasAt(s, i, <<"!", "[">>)
           /\ HasAt(s, j, <<"]", "(">>)
           /\ k > j + 2
           /\ At(s, k) = ")"
        THEN Match(k + 1, SubSeq(s, i + 2, j - 1)) ELSE NoMatch

\* ^[\-\*_]{3,}\s*$   (MULTILINE)
re_horizontal_rule(s, i) ==
    LET b == SkipIn(s, i, {"-", "*", "_"})
        c == SkipIn(s, b, WS)
        e == LastLineEnd(s, b, c)
    IN  IF LineStart(s, i) /\ b - i >= 3 /\ e > 0
        THEN Match(e, <<>>) ELSE NoMatch

\* `([^`]+)` -> \1
re_inline_code(s, i) ==
    LET j == SkipNotIn(s, i + 1, {Backtick})
    IN  IF At(s, i) = Backtick /\ j > i + 1 /\ At(s, j) = Backtick
        THEN Match(j + 1, SubSeq(s, i + 1, j - 1)) ELSE NoMatch

\* ^\s*[\*\-\+]\s+   (MULTILINE)
re_unordered_item(s, i) ==
    LET a == SkipIn(s, i, WS)
        b == SkipIn(s, a + 1, WS)
    IN  IF LineStart(s, i) /\ At(s, a) \in {"*", "-", "+"} /\ b > a + 1
        THEN Match(b, <<>>) ELSE NoMatch

\* ^\s*\d+\.\s+   (MULTILINE)
re_ordered_item(s, i) ==
    LET a == SkipIn(s, i, WS)
        d == SkipIn(s, a, Digits)
        b == SkipIn(s, d + 1, WS)
    IN  IF LineStart(s, i) /\ d > a /\ At(s, d) = "." /\ b > d + 1
        THEN Match(b, <<>>) ELSE NoMatch

\* ^\s*[\*\-\+]\s*\[[xX ]\]\s*   (MULTILINE)
re_task_item(s, i) ==
    LET a == SkipIn(s, i, WS)
        b == SkipIn(s, a + 1, WS)
        c == SkipIn(s, b + 3, WS)
    IN  IF /\ LineStart(s, i)
           /\ At(s, a) \in {"*", "-", "+"}
           /\ At(s, b) = "["
           /\ At(s, b + 1) \in {"x", "X", " "}
           /\ At(s, b + 2) = "]"
        THEN Match(c, <<>>) ELSE NoMatch

\* <!--[\s\S]*?-->
re_html_comment(s, i) ==
    LET j == FindLit(s, i + 4, <<"-", "-", ">">>)
    IN  IF HasAt(s, i, <<"<", "!", "-", "-">>) /\ j > 0
        THEN Match(j + 3, <<>>) ELSE NoMatch

\* \[\^[^\]]+\]
re_footnote(s, i) ==
    LET j == SkipNotIn(s, i + 2, {"]"})
    IN  IF HasAt(s, i, <<"[", "^">>) /\ j > i + 2 /\ At(s, j) = "]"
        THEN Match(j + 1, <<>>) ELSE NoMatch

strip_headings(s) == re_sub(s, [i \in 1..Len(s) |-> re_heading(s, i)])

strip_bold_star(s) == re_sub(s, [i \in 1..Len(s) |-> re_double(s, i, "*")])

strip_bold_underscore(s) == re_sub(s, [i \in 1..Len(s) |-> re_double(s, i, "_")])

strip_italic_star(s) == re_sub(s, [i \in 1..Len(s) |-> re_single(s, i, "*")])

strip_italic_underscore(s) == re_sub(s, [i \in 1..Len(s) |-> re_single(s, i, "_")])

strip_strikethrough(s) == re_sub(s, [i \in 1..Len(s) |-> re_double(s, i, "~")])

strip_blockquotes(s) == re_sub(s, [i \in 1..Len(s) |-> re_blockquote(s, i)])

strip_links(s) == re_sub(s, [i \in 1..Len(s) |-> re_link(s, i)])

strip_reference_links(s) == re_sub(s, [i \in 1..Len(s) |-> re_reference_link(s, i)])

strip_link_definitions(s) == re_sub(s, [i \in 1..Len(s) |-> re_link_definition(s, i)])

strip_images(s) == re_sub(s, [i \in 1..Len(s) |-> re_image(s, i)])

strip_horizontal_rules(s) == re_sub(s, [i \in 1..Len(s) |-> re_horizontal_rule(s, i)])

strip_inline_code(s) == re_sub(s, [i \in 1..Len(s) |-> re_inline_code(s, i)])

strip_unordered_items(s) == re_sub(s, [i \in 1..Len(s) |-> re_unordered_item(s, i)])

strip_ordered_items(s) == re_sub(s, [i \in 1..Len(s) |-> re_ordered_item(s, i)])

strip_task_items(s) == re_sub(s, [i \in 1..Len(s) |-> re_task_item(s, i)])

strip_html_comments(s) == re_sub(s, [i \in 1..Len(s) |-> re_html_comment(s, i)])

strip_footnotes(s) == re_sub(s, [i \in 1..Len(s) |-> re_footnote(s, i)])

\* the eighteen substitutions of clean_markdown_formatting, in source order
clean_markdown_formatting(text) ==
    LET t1  == strip_headings(text)
        t2  == strip_bold_star(t1)
        t3  == strip_bold_underscore(t2)
        t4  == strip_italic_star(t3)
        t5  == strip_italic_underscore(t4)
        t6  == strip_strikethrough(t5)
        t7  == strip_blockquotes(t6)
        t8  == strip_links(t7)
        t9  == strip_reference_links(t8)
        t10 == strip_link_definitions(t9)
        t11 == strip_images(t10)
        t12 == strip_horizontal_rules(t11)
        t13 == strip_inline_code(t12)
        t14 == strip_unordered_items(t13)
        t15 == strip_ordered_items(t14)
        t16 == strip_task_items(t15)
        t17 == strip_html_comments(t16)
        t18 == strip_footnotes(t17)
    IN  t18

\* ------------------------------------------------------------------------
\* normalize_whitespace
\* ------------------------------------------------------------------------

\* \n{3,} -> \n\n
re_blank_lines(s, i) ==
    LET j == SkipIn(s, i, {"\n"})
    IN  IF j - i >= 3 THEN Match(j, <<"\n", "\n">>) ELSE NoMatch

collapse_blank_lines(s) == re_sub(s, [i \in 1..Len(s) |-> re_blank_lines(s, i)])

\* the last position of s whose character is not whitespace, 0 if there is none
RECURSIVE LastNonWs(_, _)
LastNonWs(s, i) ==
    IF i >= 1 /\ s[i] \in WS THEN LastNonWs(s, i - 1) ELSE i

\* str.strip()
strip(s) == SubSeq(s, SkipIn(s, 1, WS), LastNonWs(s, Len(s)))

normalize_whitespace(text) == strip(collapse_blank_lines(text))

\* ------------------------------------------------------------------------
\* process_text
\* ------------------------------------------------------------------------

SettingKeys == {"strip_code_blocks", "strip_xml", "strip_markdown"}

\* "if key in settings" in place of "if settings.get(key)"
settings_has(settings, key) == key \in DOMAIN settings

\* if settings.get(key): a key the dictionary lacks yields None, which is false
settings_get(settings, key) == key \in DOMAIN settings /\ settings[key]

\* statement 1 of process_text
stage_code_blocks(processed, settings) ==
    IF settings_get(settings, "strip_code_blocks")
    THEN clean_code_block_markers(processed) ELSE processed

\* statement 2 of process_text
stage_xml(processed, settings) ==
    IF settings_get(settings, "strip_xml")
    THEN clean_xml_tags(processed) ELSE processed

\* statement 3 of process_text
stage_markdown(processed, settings) ==
    IF settings_get(settings, "strip_markdown")
    THEN clean_markdown_formatting(processed) ELSE processed

process_text(text, settings) ==
    normalize_whitespace(
        stage_markdown(stage_xml(stage_code_blocks(text, settings), settings), settings))

\* ------------------------------------------------------------------------
\* Token counter and statistics
\* ------------------------------------------------------------------------

\* len(enc.encode(text)): the encoding belongs to tiktoken, not to app.py; it
\* is abstracted to one token per character (count_tokens("") = 0)
count_tokens(text) == Len(text)

RECURSIVE GCD(_, _)
GCD(a, b) == IF b = 0 THEN a ELSE GCD(b, a % b)

Abs(a) == IF a < 0 THEN 0 - a ELSE a

\* the exact value n/d of a float, as <<numerator, denominator>> in lowest terms
Rat(n, d) == LET g == GCD(Abs(n), Abs(d)) IN <<n \div g, d \div g>>

\* the outcome of a division by zero
ZeroDivisionError == <<0, 0>>

\* a / b
true_div(a, b) == IF b = 0 THEN ZeroDivisionError ELSE Rat(a, b)

\* r * k
rat_mul(r, k) == IF r = ZeroDivisionError THEN ZeroDivisionError ELSE Rat(r[1] * k, r[2])

\* tokens_saved / orig_tokens * 100 without the guard on orig_tokens
pct_savings_unguarded(saved, orig) == rat_mul(true_div(saved, orig), 100)

\* (tokens_saved / orig_tokens * 100) if orig_tokens > 0 else 0
pct_savings_of(saved, orig) ==
    IF orig > 0 THEN rat_mul(true_div(saved, orig), 100) ELSE <<0, 1>>

\* None, told apart from every text
None == <<"None">>

\* the truth value of a session_state.output_text: None and "" are false
Truthy(t) == t # None /\ t # <<>>

\* ------------------------------------------------------------------------
\* Bounds and input sets
\* ------------------------------------------------------------------------

MaxXmlLen == 6
MaxCodeFrags == 4
MaxMdLen == 3
MaxContentLen == 5
MaxPipeFrags == 4
MaxBodyLen == 2
MaxInputFrags == 2
MaxTokens == 7

\* all sequences over A of length at most n
SeqsUpTo(A, n) == UNION {[1..k -> A] : k \in 0..n}

\* the concatenation of a sequence of texts
RECURSIVE Concat(_)
Concat(ss) == IF ss = <<>> THEN <<>> ELSE Head(ss) \o Concat(Tail(ss))

\* all texts made of at most n fragments of F
TextsOf(F, n) == {Concat(ss) : ss \in SeqsUpTo(F, n)}

XmlTexts == SeqsUpTo({"<", ">", "/", "a"}, MaxXmlLen)

CodeTexts == TextsOf({Fence, <<Backtick>>, <<"a">>, <<"\n">>, <<" ">>}, MaxCodeFrags)

MdTexts == SeqsUpTo({"#", ">", "*", "-", " ", "a"}, MaxMdLen)

PipeTexts ==
    TextsOf({Fence \o <<"\n">>, <<"<", "a", ">">>, <<"*", "b", "*">>, <<"\n">>, <<">">>},
            MaxPipeFrags)

CommentOpen == <<"<", "!", "-", "-">>

CommentClose == <<"-", "-", ">">>

\* the texts that are one HTML comment: <!-- body -->
CommentTexts ==
    {CommentOpen \o body \o CommentClose :
        body \in SeqsUpTo({"a", ">", " ", "*"}, MaxBodyLen)}

InputTexts == TextsOf({<<"a">>, <<"#", " ">>, <<"<", "b", ">">>, <<" ">>}, MaxInputFrags)

\* every settings dictionary: each key absent, False or True
AllSettings == UNION {[K -> BOOLEAN] : K \in SUBSET SettingKeys}

\* the settings dictionaries the sidebar builds (all three keys present)
SidebarSettings == [SettingKeys -> BOOLEAN]

\* the texts x put into a construct: single-line texts that begin and end with
\* a letter or a digit
Contents ==
    {x \in SeqsUpTo({"a", "b", "1", ".", " ", "_"}, MaxContentLen) :
        x = <<>> \/ (x[1] \in {"a", "b", "1"} /\ x[Len(x)] \in {"a", "b", "1"})}

Urls == {<<"u">>, <<"u", "/", "v">>}

PreservingKinds ==
    {"heading", "bold_star", "bold_underscore", "italic_star", "italic_underscore",
     "link", "list_item", "inline_code"}

ListKinds ==
    {"unordered_star", "unordered_dash", "unordered_plus", "ordered",
     "task_open", "task_done"}

ConstructKinds == PreservingKinds \cup ListKinds \cup {"image"}

\* the markdown source of a construct around the text x
Build(kind, x, url) ==
    CASE kind = "heading"           -> <<"#", " ">> \o x
      [] kind = "bold_star"         -> <<"*", "*">> \o x \o <<"*", "*">>
      [] kind = "bold_underscore"   -> <<"_", "_">> \o x \o <<"_", "_">>
      [] kind = "italic_star"       -> <<"*">> \o x \o <<"*">>
      [] kind = "italic_underscore" -> <<"_">> \o x \o <<"_">>
      [] kind = "link"              -> <<"[">> \o x \o <<"]", "(">> \o url \o <<")">>
      [] kind = "list_item"         -> <<"-", " ">> \o x
      [] kind = "inline_code"       -> <<Backtick>> \o x \o <<Backtick>>
      [] kind = "unordered_star"    -> <<"*", " ">> \o x
      [] kind = "unordered_dash"    -> <<"-", " ">> \o x
      [] kind = "unordered_plus"    -> <<"+", " ">> \o x
      [] kind = "ordered"           -> <<"1", ".", " ">> \o x
      [] kind = "task_open"         -> <<"-", " ", "[", " ", "]", " ">> \o x
      [] kind = "task_done"         -> <<"-", " ", "[", "x", "]", " ">> \o x
      [] kind = "image"             -> <<"!", "[">> \o x \o <<"]", "(">> \o url \o <<")">>

\* ------------------------------------------------------------------------
\* State
\* ------------------------------------------------------------------------

VARIABLES
    text,           \* the argument of the function or pipeline under way
    once,           \* the result of the first application
    twice,          \* the result of the second application
    step,           \* the number of applications done
    construct,      \* the kind of markdown construct text was built from
    content,        \* the text x inside that construct
    settings,       \* the settings dictionary given to process_text
    processed,      \* the local variable processed of process_text
    pc,             \* the statement process_text is at
    output_text,    \* st.session_state.output_text
    orig_tokens,    \* st.session_state.orig_tokens
    new_tokens,     \* st.session_state.new_tokens
    tokenizer,      \* the st.cache_resource entry of get_tokenizer
    view,           \* what the script run rendered in the output column
    tokens_saved,   \* the local tokens_saved of the script run
    pct_savings,    \* the local pct_savings of the script run
    source_text     \* history: the input_text of the click that set output_text

fnVars == <<text, once, twice, step, construct, content>>

pipeVars == <<settings, processed, pc>>

sessionVars == <<output_text, orig_tokens, new_tokens>>

uiVars == <<output_text, orig_tokens, new_tokens, tokenizer, view, tokens_saved,
            pct_savings, source_text>>

vars == <<text, once, twice, step, construct, content, settings, processed, pc,
          output_text, orig_tokens, new_tokens, tokenizer, view, tokens_saved,
          pct_savings, source_text>>

\* no function application under way
FnIdle ==
    /\ once = <<>>
    /\ twice = <<>>
    /\ step = 0
    /\ construct = "none"
    /\ content = <<>>

\* process_text not called
PipeIdle ==
    /\ settings = [k \in SettingKeys |-> FALSE]
    /\ processed = <<>>
    /\ pc = "idle"

\* the session state after the first run's initialisation (lines 194-197)
SessionInit ==
    /\ output_text = None
    /\ orig_tokens = 0
    /\ new_tokens = 0
    /\ tokenizer = "unloaded"
    /\ view = "none"
    /\ tokens_saved = 0
    /\ pct_savings = <<0, 1>>
    /\ source_text = None

\* ------------------------------------------------------------------------
\* The script body (default specification)
\* ------------------------------------------------------------------------

\* lines 205-232: the output column, given the session state the run ends with
Render(out, orig, new) ==
    IF Truthy(out)
    THEN /\ tokens_saved' = orig - new
         /\ pct_savings' = pct_savings_of(orig - new, orig)
         /\ view' = IF pct_savings_of(orig - new, orig) = ZeroDivisionError
                    THEN "exception" ELSE "stats"
    ELSE /\ tokens_saved' = 0
         /\ pct_savings' = <<0, 1>>
         /\ view' = "info"

\* a script run whose condition "process_button and input_text" is false
RunIdle ==
    \E input_text \in InputTexts, process_button \in BOOLEAN :
        /\ ~(process_button /\ input_text # <<>>)
        /\ UNCHANGED <<sessionVars, tokenizer, source_text>>
        /\ Render(output_text, orig_tokens, new_tokens)
        /\ UNCHANGED <<fnVars, pipeVars>>

\* a script run that processes; get_tokenizer returns the encoding (cached or
\* loaded now)
RunProcess ==
    \E input_text \in InputTexts \ {<<>>}, sidebar \in SidebarSettings :
        LET out == process_text(input_text, sidebar)
        IN  /\ output_text' = out
            /\ orig_tokens' = count_tokens(input_text)
            /\ new_tokens' = count_tokens(out)
            /\ tokenizer' = "loaded"
            /\ source_text' = input_text
            /\ Render(out, count_tokens(input_text), count_tokens(out))
            /\ UNCHANGED <<fnVars, pipeVars>>

\* a script run that processes while the encoding cannot be loaded: line 201
\* has stored the output when count_tokens raises on line 202
RunProcessTokenizerFails ==
    \E input_text \in InputTexts \ {<<>>}, sidebar \in SidebarSettings :
        /\ tokenizer = "unloaded"
        /\ output_text' = process_text(input_text, sidebar)
        /\ source_text' = input_text
        /\ view' = "exception"
        /\ UNCHANGED <<orig_tokens, new_tokens, tokenizer, tokens_saved, pct_savings>>
        /\ UNCHANGED <<fnVars, pipeVars>>

Init == text = <<>> /\ FnIdle /\ PipeIdle /\ SessionInit

Next == RunIdle \/ RunProcess \/ RunProcessTokenizerFails

Spec == Init /\ [][Next]_vars

\* ------------------------------------------------------------------------
\* The statistics of lines 205-211 over all token counts
\* ------------------------------------------------------------------------

InitStats ==
    /\ text = <<>> /\ FnIdle /\ PipeIdle
    /\ output_text = <<"a">>
    /\ orig_tokens \in 0..MaxTokens
    /\ new_tokens \in 0..MaxTokens
    /\ tokenizer = "loaded"
    /\ view = "none"
    /\ tokens_saved = 0
    /\ pct_savings = <<0, 1>>
    /\ source_text = None

ShowStats ==
    /\ view = "none"
    /\ Render(output_text, orig_tokens, new_tokens)
    /\ UNCHANGED <<sessionVars, tokenizer, source_text, fnVars, pipeVars>>

NextStats == ShowStats

SpecStats == InitStats /\ [][NextStats]_vars

\* ------------------------------------------------------------------------
\* process_text statement by statement
\* ------------------------------------------------------------------------

InitPipeline ==
    /\ text \in PipeTexts
    /\ FnIdle
    /\ settings \in AllSettings
    /\ processed = <<>>
    /\ pc = "start"
    /\ SessionInit

InitComment ==
    /\ text \in CommentTexts
    /\ FnIdle
    /\ settings \in AllSettings
    /\ processed = <<>>
    /\ pc = "start"
    /\ SessionInit

\* processed = text
Begin ==
    /\ pc = "start"
    /\ processed' = text
    /\ pc' = "code_blocks"
    /\ UNCHANGED <<settings, fnVars, uiVars>>

StripCodeBlocks ==
    /\ pc = "code_blocks"
    /\ processed' = stage_code_blocks(processed, settings)
    /\ pc' = "xml"
    /\ UNCHANGED <<settings, fnVars, uiVars>>

StripXml ==
    /\ pc = "xml"
    /\ processed' = stage_xml(processed, settings)
    /\ pc' = "markdown"
    /\ UNCHANGED <<settings, fnVars, uiVars>>

StripMarkdown ==
    /\ pc = "markdown"
    /\ processed' = stage_markdown(processed, settings)
    /\ pc' = "whitespace"
    /\ UNCHANGED <<settings, fnVars, uiVars>>

NormalizeWhitespace ==
    /\ pc = "whitespace"
    /\ processed' = normalize_whitespace(processed)
    /\ pc' = "done"
    /\ UNCHANGED <<settings, fnVars, uiVars>>

NextPipeline ==
    Begin \/ StripCodeBlocks \/ StripXml \/ StripMarkdown \/ NormalizeWhitespace

SpecPipeline == InitPipeline /\ [][NextPipeline]_vars

SpecComment == InitComment /\ [][NextPipeline]_vars

\* ------------------------------------------------------------------------
\* The rewrite functions applied once and twice
\* ------------------------------------------------------------------------

InitFn(Texts) ==
    /\ text \in Texts
    /\ FnIdle
    /\ PipeIdle
    /\ SessionInit

ApplyXml ==
    /\ step < 2
    /\ step' = step + 1
    /\ once' = IF step = 0 THEN clean_xml_tags(text) ELSE once
    /\ twice' = IF step = 1 THEN clean_xml_tags(once) ELSE twice
    /\ UNCHANGED <<text, construct, content, pipeVars, uiVars>>

ApplyCode ==
    /\ step < 2
    /\ step' = step + 1
    /\ once' = IF step = 0 THEN clean_code_block_markers(text) ELSE once
    /\ twice' = IF step = 1 THEN clean_code_block_markers(once) ELSE twice
    /\ UNCHANGED <<text, construct, content, pipeVars, uiVars>>

ApplyMarkdown ==
    /\ step < 2
    /\ step' = step + 1
    /\ once' = IF step = 0 THEN clean_markdown_formatting(text) ELSE once
    /\ twice' = IF step = 1 THEN clean_markdown_formatting(once) ELSE twice
    /\ UNCHANGED <<text, construct, content, pipeVars, uiVars>>

InitXml == InitFn(XmlTexts)

SpecXml == InitXml /\ [][ApplyXml]_vars

InitCode == InitFn(CodeTexts)

SpecCode == InitCode /\ [][ApplyCode]_vars

InitMarkdown == InitFn(MdTexts)

SpecMarkdown == InitMarkdown /\ [][ApplyMarkdown]_vars

\* clean_markdown_formatting applied to one construct
InitConstruct ==
    /\ construct \in ConstructKinds
    /\ content \in Contents
    /\ content = <<>> => construct = "image"
    /\ \E url \in Urls : text = Build(construct, content, url)
    /\ once = <<>>
    /\ twice = <<>>
    /\ step = 0
    /\ PipeIdle
    /\ SessionInit

SpecConstruct == InitConstruct /\ [][ApplyMarkdown]_vars

\* ------------------------------------------------------------------------
\* Properties
\* ------------------------------------------------------------------------

\* C1: process_text(text, settings) = normalize_whitespace(M(T(C(text)))):
\* after each statement of process_text the local variable holds the text
\* rewritten by the enabled stages so far, in the order code blocks, XML,
\* markdown; a stage whose flag is absent or False leaves it unchanged; the
\* result is the whitespace-normalised text for every settings value.
PipelineOrder ==
    LET on(k) == k \in DOMAIN settings /\ settings[k] = TRUE
        c == IF on("strip_code_blocks") THEN clean_code_block_markers(text) ELSE text
        t == IF on("strip_xml") THEN clean_xml_tags(c) ELSE c
        m == IF on("strip_markdown") THEN clean_markdown_formatting(t) ELSE t
    IN  /\ pc = "code_blocks" => processed = text
        /\ pc = "xml" => processed = c
        /\ pc = "markdown" => processed = t
        /\ pc = "whitespace" => processed = m
        /\ pc = "done" => processed = normalize_whitespace(m)

\* C1 witness: a finished call with all three stages enabled in which the code
\* stage, the XML stage, the markdown stage and the normalisation each changed
\* the text
PipelineAllStagesRan ==
    LET c == clean_code_block_markers(text)
        t == clean_xml_tags(c)
        m == clean_markdown_formatting(t)
    IN  /\ pc = "done"
        /\ \A k \in SettingKeys : k \in DOMAIN settings /\ settings[k]
        /\ c # text /\ t # c /\ m # t /\ processed # m
        /\ processed # <<>>

\* C2: clean_markdown_formatting is idempotent: a second application returns
\* the result of the first.
MarkdownIdempotent == step = 2 => twice = once

\* C3: clean_xml_tags is idempotent, and its result contains no substring
\* '<' + one or more non-'>' characters + '>'.
XmlIdempotent ==
    /\ step = 2 => twice = once
    /\ step >= 1 =>
          ~\E i \in 1..Len(once), j \in 1..Len(once) :
              /\ once[i] = "<"
              /\ j > i + 1
              /\ once[j] = ">"
              /\ \A k \in (i + 1)..(j - 1) : once[k] # ">"

\* C3 witness: both applications done on a text where the self-closing pass
\* removed a tag and joined the text on either side of it
XmlJoinedAroundTag ==
    /\ step = 2
    /\ Len(text) >= 2
    /\ text[1] = "a"
    /\ text[Len(text)] = "a"
    /\ strip_self_closing_tags(text) # text
    /\ once = <<"a", "a">>

\* C4: an image ![alt](url) is replaced by exactly alt.
ImageReplacedByAlt ==
    (/\ construct = "image"
     /\ step >= 1
     /\ \A i \in 1..Len(content) : content[i] \in {"a", "b"})
    => once = content

\* C5: a line made of a list marker (unordered, ordered or task-list) and an
\* item text becomes exactly the item text.
ListMarkerRemoved ==
    (/\ construct \in ListKinds
     /\ step >= 1
     /\ \A i \in 1..Len(content) : content[i] \in {"a", "b"})
    => once = content

\* C6: for a content-preserving construct around a non-empty single-line text
\* x that holds none of the construct's own delimiter characters, the output
\* is exactly x.
ContentPreserved ==
    (/\ construct \in PreservingKinds
     /\ step >= 1
     /\ content # <<>>
     /\ construct \in {"bold_underscore", "italic_underscore"}
            => \A i \in 1..Len(content) : content[i] # "_")
    => once = content

\* C7: with strip_markdown enabled, process_text removes an HTML comment
\* entirely, whatever strip_xml and strip_code_blocks are: a text that is one
\* comment yields the empty text.
CommentRemoved ==
    (pc = "done" /\ settings_get(settings, "strip_markdown")) => processed = <<>>

\* C8: clean_code_block_markers removes exactly the lines that begin with
\* three backticks, each with its line break, and keeps every other line
\* unchanged and in order.
FenceLinesRemoved ==
    step >= 1 =>
        LET n == Len(text)
            startOf(i) ==
                CHOOSE j \in 1..i :
                    /\ j = 1 \/ text[j - 1] = "\n"
                    /\ \A k \in (j + 1)..i : text[k - 1] # "\n"
            fenced(i) ==
                /\ startOf(i) + 2 <= n
                /\ \A k \in 0..2 : text[startOf(i) + k] = Backtick
            kept == SelectSeq([i \in 1..n |-> i], LAMBDA i : ~fenced(i))
        IN  once = [k \in 1..Len(kept) |-> text[kept[k]]]

\* C8 witness: a text with a fence opener and no closer, followed by a code
\* line that is kept
FenceOpenerWithoutCloser ==
    /\ step >= 1
    /\ HasAt(text, 1, Fence)
    /\ \A i \in 2..Len(text) : ~(LineStart(text, i) /\ HasAt(text, i, Fence))
    /\ once # <<>>
    /\ once # text

\* C9: the statistics never fail: tokens_saved = orig_tokens - new_tokens, the
\* percentage is tokens_saved / orig_tokens * 100 when orig_tokens > 0 and 0
\* when orig_tokens = 0, and it is 0 when new_tokens = orig_tokens.
StatsDefined ==
    view # "none" =>
        /\ view = "stats"
        /\ tokens_saved = orig_tokens - new_tokens
        /\ orig_tokens > 0 =>
              /\ pct_savings[2] > 0
              /\ pct_savings[1] * orig_tokens = tokens_saved * 100 * pct_savings[2]
        /\ orig_tokens = 0 => pct_savings = <<0, 1>>
        /\ new_tokens = orig_tokens => pct_savings[1] = 0

\* C9 witness: the statistics rendered for an original count of zero
StatsForZeroOriginal ==
    view = "stats" /\ orig_tokens = 0 /\ new_tokens > 0

\* C10: whenever output_text is not None, orig_tokens and new_tokens are the
\* token counts of the input and the output of the Process click that
\* produced output_text.
SessionConsistent ==
    output_text # None =>
        /\ orig_tokens = count_tokens(source_text)
        /\ new_tokens = count_tokens(output_text)
====
